---------------------------- MODULE Spec2Model ----------------------------
(***************************************************************************)
(* Pharmacy finder: the ranking engine of services/pharmacyService.ts      *)
(* (findNearbyPharmacies), the reordering of App.tsx (sortedPharmacies)    *)
(* and the App search flow (handleSearch / handleMedicineSelect).          *)
(*                                                                         *)
(* Units.  Coordinates are in 1e-4 degree (12.9189 is 129189), distances   *)
(* before rounding in metres, result distances in tenths of a kilometre    *)
(* (toFixed(1)), prices in hundredths of a rupee (toFixed(2)).             *)
(***************************************************************************)
EXTENDS Integers, Sequences, FiniteSets, TLC

VARIABLES
    directory,      \* the pharmacy catalogue the query reads
    qState,         \* findNearbyPharmacies: "idle", "pending" (timer armed), "resolved"
    userLocation,   \* argument of the call in progress
    medicineName,   \* argument of the call in progress
    resolved,       \* the array the promise resolved with
    scanInput,      \* best-option scan: pharmaciesWithDetails
    scanPos,        \* best-option scan: number of filtered elements visited
    bestOption,     \* best-option scan: index of the running best in scanInput, 0 = null
    scanState,      \* best-option scan: "off", "scanning", "done"
    page,           \* App: 'home' | 'results'
    pharmacies,     \* App: the list held
    isLoading,      \* App
    sortBy,         \* App: the sort key
    statusText,     \* App: [text, arg], arg the medicine or query named in the text
    medicineChoices,\* App: the names offered for selection
    locationError,  \* App
    geoSupported,   \* whether navigator.geolocation exists
    recPending,     \* getMedicineRecommendations calls awaited: [id, query]
    geoPending,     \* getCurrentPosition calls awaiting a callback: [id, medicine]
    pharmPending,   \* findNearbyPharmacies calls awaited: [id, medicine, loc, after],
                    \* after = the calls whose timers were armed earlier
    nextFlow,       \* number of searches and selections started so far
    lastEvent,      \* the handler or callback that ran last
    lastRec,        \* what getMedicineRecommendations resolved with in the step
                    \* just taken, <<>> after any other step
    heldFor,        \* the flow whose response is in pharmacies: [id, medicine]
    lastSelected,   \* the flow of the latest handleMedicineSelect call: [id, medicine]
    heap,           \* overlapping calls: the objects, by address
    catalogue,      \* overlapping calls: the directory array, as addresses
    calls           \* overlapping calls: [loc, name, state, refs, overlaps], oldest first

queryVars == <<directory, qState, userLocation, medicineName, resolved>>
scanVars == <<scanInput, scanPos, bestOption, scanState>>
uiVars == <<page, pharmacies, isLoading, sortBy, statusText, medicineChoices,
            locationError>>
flowVars == <<geoSupported, recPending, geoPending, pharmPending, nextFlow, lastEvent>>
ghostVars == <<lastRec, heldFor, lastSelected>>
appVars == <<uiVars, flowVars, ghostVars>>
heapVars == <<heap, catalogue, calls>>
vars == <<directory, qState, userLocation, medicineName, resolved,
          scanInput, scanPos, bestOption, scanState,
          page, pharmacies, isLoading, sortBy, statusText, medicineChoices,
          locationError, geoSupported, recPending, geoPending, pharmPending,
          nextFlow, lastEvent, lastRec, heldFor, lastSelected,
          heap, catalogue, calls>>

-----------------------------------------------------------------------------
(* Bounds of the model *)

\* largest catalogue prefix used as the directory
MaxDir == 11
\* longest candidate list for which every combination of random draws is tried
MaxFullTape == 3
\* longest input sequence handed to the best-option scan on its own
MaxScanLen == 3
\* longest pharmacy list handed to sortedPharmacies
MaxSortLen == 3
\* searches and selections started in one run of the App
MaxFlows == 2

-----------------------------------------------------------------------------
(* types.ts *)

InStock == "In Stock"
LowStock == "Low Stock"
OutOfStock == "Out of Stock"
StockStatus == {InStock, LowStock, OutOfStock}

-----------------------------------------------------------------------------
(* pharmacyService.ts: data *)

\* name, address and phone are copied through unchanged and are left out
VERIFIED_PHARMACIES_IN_BANGALORE ==
    << [id |-> 21, lat |-> 129189, lon |-> 774856],
       [id |-> 22, lat |-> 129155, lon |-> 774808],
       [id |-> 30, lat |-> 129213, lon |-> 774842],
       [id |-> 31, lat |-> 129252, lon |-> 774759],
       [id |-> 23, lat |-> 129077, lon |-> 775451],
       [id |-> 24, lat |-> 129015, lon |-> 775490],
       [id |-> 32, lat |-> 129058, lon |-> 775401],
       [id |-> 33, lat |-> 129125, lon |-> 775523],
       [id |-> 25, lat |-> 129265, lon |-> 775188],
       [id |-> 26, lat |-> 129303, lon |-> 775102],
       [id |-> 27, lat |-> 129331, lon |-> 775145],
       [id |-> 34, lat |-> 129298, lon |-> 775113],
       [id |-> 18, lat |-> 129251, lon |-> 775469],
       [id |-> 28, lat |-> 129157, lon |-> 775571],
       [id |-> 29, lat |-> 129105, lon |-> 775603],
       [id |-> 36, lat |-> 129285, lon |-> 775504],
       [id |-> 37, lat |-> 129193, lon |-> 775620],
       [id |-> 1,  lat |-> 129248, lon |-> 775843],
       [id |-> 2,  lat |-> 129345, lon |-> 776264],
       [id |-> 3,  lat |-> 129784, lon |-> 776408] >>

\* the directories of the model: the first n records of the catalogue
Directories ==
    { SubSeq(VERIFIED_PHARMACIES_IN_BANGALORE, 1, n) : n \in 0..MaxDir }

\* rupee prices of the table, in hundredths
MEDICINE_PRICES ==
    [ m \in {"paracetamol", "ibuprofen", "metformin", "atorvastatin",
             "amoxicillin", "cetirizine", "dolo 650"} |->
        CASE m = "paracetamol"  -> 3000
          [] m = "ibuprofen"    -> 4500
          [] m = "metformin"    -> 6000
          [] m = "atorvastatin" -> 8000
          [] m = "amoxicillin"  -> 7500
          [] m = "cetirizine"   -> 2500
          [] m = "dolo 650"     -> 3100 ]

\* medicine names a caller passes: two of the table (one in mixed case), two
\* that are not in it, one of them empty
MedicineNames == {"Paracetamol", "atorvastatin", "xy", ""}

\* String.prototype.toLowerCase on the names of the model
ToLowerCase(s) ==
    CASE s = "Paracetamol" -> "paracetamol"
      [] s = "Ibuprofen" -> "ibuprofen"
      [] OTHER -> s

\* user locations: on the first record, 40 m from it, and across town
UserLocations ==
    { [lat |-> 129189, lon |-> 774856],
      [lat |-> 129192, lon |-> 774858],
      [lat |-> 129250, lon |-> 775450] }

-----------------------------------------------------------------------------
(* Math.random(): the three draws taken for one pharmacy *)

\* Math.random() * 20 of the synthetic base price, in hundredths: [0, 2000)
Jitters == {0, 1999}
\* (Math.random() - 0.5) * 0.1 of the price variation, in thousandths: [-50, 50)
Variations == {-50, 49}
\* Math.floor(Math.random() * stockOptions.length): 0..4, one roll per option kind
StockRolls == {0, 3, 4}

Draws == [jitter : Jitters, variation : Variations, roll : StockRolls]

\* the draws of one call, one per candidate; beyond MaxFullTape candidates the
\* model tries the tapes that alternate between two draws
Tapes(n) ==
    IF n <= MaxFullTape
    THEN [1..n -> Draws]
    ELSE { [i \in 1..n |-> IF i % 2 = 1 THEN d1 ELSE d2] : d1 \in Draws, d2 \in Draws }

-----------------------------------------------------------------------------
(* pharmacyService.ts: haversineDistance *)

Abs(x) == IF x < 0 THEN -x ELSE x

Min(a, b) == IF a < b THEN a ELSE b

RECURSIVE SqrtSearch(_, _, _)
\* largest r in lo..hi with r * r <= n
SqrtSearch(n, lo, hi) ==
    IF lo >= hi THEN lo
    ELSE LET mid == (lo + hi + 1) \div 2
         IN  IF mid * mid <= n THEN SqrtSearch(n, mid, hi)
             ELSE SqrtSearch(n, lo, mid - 1)

Sqrt(n) == SqrtSearch(n, 0, 46340)

\* Great-circle distance in metres.  R * c of the source, evaluated in fixed
\* point for the city's extent: over a few tens of kilometres
\* 2 * atan2(sqrt(a), sqrt(1 - a)) is sqrt(a) * 2 and sin(x) is x, so that
\* R * c = sqrt((R * dLat)^2 + (R * cos(lat) * dLon)^2); one 1e-4 degree is
\* 11.119 m of latitude and, at the catalogue's latitude, 10.838 m of longitude.
haversineDistance(loc1, loc2) ==
    LET dLat == (Abs(loc2.lat - loc1.lat) * 11119) \div 1000
        dLon == (Abs(loc2.lon - loc1.lon) * 10838) \div 1000
    IN  Sqrt(dLat * dLat + dLon * dLon)

-----------------------------------------------------------------------------
(* pharmacyService.ts: findNearbyPharmacies, lines 83-110 *)

\* .map(pharmacy => ({...pharmacy, distance: haversineDistance(...)}))
pharmaciesWithDistance(dir, loc) ==
    [ i \in 1..Len(dir) |->
        [id |-> dir[i].id, lat |-> dir[i].lat, lon |-> dir[i].lon,
         distance |-> haversineDistance(loc, dir[i])] ]

\* mutant: the operands exchanged, farthest first
ByDistanceDescending(a, b) == b.distance - a.distance

\* (a, b) => a.distance - b.distance
ByDistance(a, b) == a.distance - b.distance

\* mutant: the best option is not pinned
compareUnpinned(key, a, b) ==
    CASE key = "price" -> a.price - b.price
      [] key = "distance" -> a.distance - b.distance
      [] key = "availability" ->
           LET stockOrder == [s \in StockStatus |->
                   CASE s = InStock -> 1 [] s = LowStock -> 2 [] s = OutOfStock -> 3]
           IN  stockOrder[a.stock] - stockOrder[b.stock]
      [] OTHER -> 0

\* mutant: 'availability' subtracts the stock strings themselves (NaN, taken as 0)
compareStockStrings(key, a, b) ==
    IF a.isBestOption THEN -1
    ELSE IF b.isBestOption THEN 1
    ELSE CASE key = "price" -> a.price - b.price
           [] key = "distance" -> a.distance - b.distance
           [] OTHER -> 0

\* the comparator of sortedPharmacies (App.tsx)
compareSorted(key, a, b) ==
    IF a.isBestOption THEN -1
    ELSE IF b.isBestOption THEN 1
    ELSE CASE key = "price" -> a.price - b.price
           [] key = "distance" -> a.distance - b.distance
           [] key = "availability" ->
                LET stockOrder == [s \in StockStatus |->
                        CASE s = InStock -> 1 [] s = LowStock -> 2 [] s = OutOfStock -> 3]
                IN  stockOrder[a.stock] - stockOrder[b.stock]
           [] OTHER -> 0

\* the comparator handed to Array.prototype.sort: "closest" is the one of
\* findNearbyPharmacies, a sort key is the one of sortedPharmacies
Comparator(which, a, b) ==
    IF which = "closest" THEN ByDistance(a, b) ELSE compareSorted(which, a, b)

RECURSIVE Insert(_, _, _)
\* x moves in front of every element that compares greater than it
Insert(sorted, x, which) ==
    IF sorted = <<>> THEN <<x>>
    ELSE IF Comparator(which, sorted[Len(sorted)], x) > 0
         THEN Append(Insert(SubSeq(sorted, 1, Len(sorted) - 1), x, which),
                     sorted[Len(sorted)])
         ELSE Append(sorted, x)

RECURSIVE ArraySort(_, _)
\* Array.prototype.sort: stable; the engine sorts arrays this short (at most
\* ClosestCount elements) by insertion
ArraySort(s, which) ==
    IF s = <<>> THEN <<>>
    ELSE Insert(ArraySort(SubSeq(s, 1, Len(s) - 1), which), s[Len(s)], which)

\* Array.prototype.slice(0, k)
Slice(s, k) == SubSeq(s, 1, Min(k, Len(s)))

\* slice(0, 10)
ClosestCount == 10

\* mutant: the slice one short
closestOneShort(dir, loc) ==
    Slice(ArraySort(pharmaciesWithDistance(dir, loc), "closest"), ClosestCount - 1)

\* mutant: the sort by distance forgotten
closestUnsorted(dir, loc) ==
    Slice(pharmaciesWithDistance(dir, loc), ClosestCount)

closestPharmacies(dir, loc) ==
    Slice(ArraySort(pharmaciesWithDistance(dir, loc), "closest"), ClosestCount)

\* mutant: the distance rounded up, as Math.ceil would
ToFixed1Ceil(metres) == (metres + 99) \div 100

\* parseFloat(x.toFixed(1)) of a distance in metres, in tenths of a kilometre
ToFixed1(metres) == (metres + 50) \div 100

\* MEDICINE_PRICES[lowerCaseMedicine] || (lowerCaseMedicine.length * 5 + Math.random() * 20)
basePrice(name, jitter) ==
    LET lowerCaseMedicine == ToLowerCase(name)
    IN  IF lowerCaseMedicine \in DOMAIN MEDICINE_PRICES
        THEN MEDICINE_PRICES[lowerCaseMedicine]
        ELSE Len(lowerCaseMedicine) * 500 + jitter

\* parseFloat((basePrice * (1 + (Math.random() - 0.5) * 0.1)).toFixed(2))
priceOf(name, draw) ==
    (basePrice(name, draw.jitter) * (1000 + draw.variation) + 500) \div 1000

stockOptions == <<InStock, InStock, InStock, LowStock, OutOfStock>>

\* the callback of closestPharmacies.map(...)
withDetails(pharmacy, name, draw) ==
    [id |-> pharmacy.id, lat |-> pharmacy.lat, lon |-> pharmacy.lon,
     distance |-> ToFixed1(pharmacy.distance),
     price |-> priceOf(name, draw),
     stock |-> stockOptions[draw.roll + 1],
     isBestOption |-> FALSE]

pharmaciesWithDetails(dir, loc, name, tape) ==
    LET closest == closestPharmacies(dir, loc)
    IN  [ i \in 1..Len(closest) |-> withDetails(closest[i], name, tape[i]) ]

-----------------------------------------------------------------------------
(* pharmacyService.ts: findNearbyPharmacies, lines 112-133: the best option *)
(* An object of pharmaciesWithDetails is named by its index in the array;   *)
(* bestOption is such an index, 0 for null.                                 *)

\* mutant: the filter forgotten
filterNothing(details) == [i \in 1..Len(details) |-> i]

\* .filter(p => p.stock !== StockStatus.OutOfStock): the kept objects, in order
filterInStock(details) ==
    SelectSeq([i \in 1..Len(details) |-> i],
              LAMBDA i : details[i].stock # OutOfStock)

\* mutant: the "cheaper" rule with its price comparison turned round
visitPricier(details, best, i) ==
    LET p == details[i]
    IN  IF best = 0 THEN i
        ELSE LET b == details[best]
             IN  IF p.stock = InStock /\ b.stock = LowStock THEN i
                 ELSE IF p.distance < b.distance /\ p.price < b.price + 500 THEN i
                 ELSE IF p.price > b.price /\ p.distance < b.distance + 10 THEN i
                 ELSE best

\* mutant: the availability rule left out
visitNoStockRule(details, best, i) ==
    LET p == details[i]
    IN  IF best = 0 THEN i
        ELSE LET b == details[best]
             IN  IF p.distance < b.distance /\ p.price < b.price + 500 THEN i
                 ELSE IF p.price < b.price /\ p.distance < b.distance + 10 THEN i
                 ELSE best

\* the callback of forEach: the running best after visiting object i
visit(details, best, i) ==
    LET p == details[i]
    IN  IF best = 0 THEN i
        ELSE LET b == details[best]
             IN  IF p.stock = InStock /\ b.stock = LowStock THEN i
                 ELSE IF p.distance < b.distance /\ p.price < b.price + 500 THEN i
                 ELSE IF p.price < b.price /\ p.distance < b.distance + 10 THEN i
                 ELSE best

RECURSIVE scanFrom(_, _, _, _)
\* forEach over kept[k+1 ..], starting from the running best
scanFrom(details, kept, k, best) ==
    IF k >= Len(kept) THEN best
    ELSE scanFrom(details, kept, k + 1, visit(details, best, kept[k + 1]))

\* mutant: every candidate that is not OutOfStock gets the flag
flagEveryCandidate(details, best) ==
    [ i \in 1..Len(details) |->
        [details[i] EXCEPT !.isBestOption = (details[i].stock # OutOfStock)] ]

\* mutant: the flag is set on a copy, the array keeps its objects unflagged
flagCopy(details, best) == details

\* if (bestOption) { bestOption.isBestOption = true; }
flagBest(details, best) ==
    IF best = 0 THEN details
    ELSE [details EXCEPT ![best].isBestOption = TRUE]

\* the array the timer callback resolves the promise with
findNearbyPharmacies(dir, loc, name, tape) ==
    LET details == pharmaciesWithDetails(dir, loc, name, tape)
    IN  flagBest(details, scanFrom(details, filterInStock(details), 0, 0))

-----------------------------------------------------------------------------
(* A call of findNearbyPharmacies: the promise, the timer, the resolution *)

NoLocation == [lat |-> 0, lon |-> 0]

NoStatus == [text |-> "", arg |-> ""]

\* no flow
NoFlow == [id |-> 0, medicine |-> ""]

ghostOff ==
    /\ lastRec = <<>>
    /\ heldFor = NoFlow
    /\ lastSelected = NoFlow

\* the App as useState initialises it, nothing in flight
appOff ==
    /\ page = "home"
    /\ pharmacies = <<>>
    /\ isLoading = FALSE
    /\ sortBy = "distance"
    /\ statusText = NoStatus
    /\ medicineChoices = <<>>
    /\ locationError = ""
    /\ geoSupported = TRUE
    /\ recPending = {}
    /\ geoPending = {}
    /\ pharmPending = {}
    /\ nextFlow = 0
    /\ lastEvent = "none"
    /\ ghostOff

\* no overlapping calls modelled
heapOff ==
    /\ heap = <<>>
    /\ catalogue = <<>>
    /\ calls = <<>>

scanOff ==
    /\ scanInput = <<>>
    /\ scanPos = 0
    /\ bestOption = 0
    /\ scanState = "off"

InitQuery ==
    /\ directory \in Directories
    /\ qState = "idle"
    /\ userLocation = NoLocation
    /\ medicineName = ""
    /\ resolved = <<>>
    /\ scanOff
    /\ appOff
    /\ heapOff

\* findNearbyPharmacies(loc, name): new Promise(...), setTimeout(..., 1500)
Call(loc, name) ==
    /\ qState \in {"idle", "resolved"}
    /\ qState' = "pending"
    /\ userLocation' = loc
    /\ medicineName' = name
    /\ resolved' = <<>>
    /\ UNCHANGED <<directory, scanVars, appVars, heapVars>>

\* the timer callback, lines 83-135, with the draws Math.random() hands it
Timeout ==
    /\ qState = "pending"
    /\ \E tape \in Tapes(Min(ClosestCount, Len(directory))) :
          resolved' = findNearbyPharmacies(directory, userLocation, medicineName, tape)
    /\ qState' = "resolved"
    /\ UNCHANGED <<directory, userLocation, medicineName, scanVars, appVars, heapVars>>

NextQuery ==
    \/ \E loc \in UserLocations, name \in MedicineNames : Call(loc, name)
    \/ Timeout

SpecQuery == InitQuery /\ [][NextQuery]_vars

-----------------------------------------------------------------------------
(* The best-option scan on its own, one forEach callback per step, over any *)
(* sequence of results, in any order                                        *)

\* result distances (1.0, 1.5, 3.0 km) and prices (90.00, 100.00) tried
ScanDistances == {10, 15, 30}
ScanPrices == {9000, 10000}

ScanCandidates == [distance : ScanDistances, price : ScanPrices, stock : StockStatus]

\* a result as lines 102-109 build it, identified by its place in the sequence
ScanResult(i, c) ==
    [id |-> i, distance |-> c.distance, price |-> c.price, stock |-> c.stock,
     isBestOption |-> FALSE]

\* the result sequence of a sequence of candidates, none flagged yet
ResultList(cs) == [i \in 1..Len(cs) |-> ScanResult(i, cs[i])]

queryOff ==
    /\ directory = <<>>
    /\ qState = "idle"
    /\ userLocation = NoLocation
    /\ medicineName = ""
    /\ resolved = <<>>

\* let bestOption = null, before the forEach
InitScan ==
    /\ \E n \in 0..MaxScanLen : \E cs \in [1..n -> ScanCandidates] :
          scanInput = ResultList(cs)
    /\ scanPos = 0
    /\ bestOption = 0
    /\ scanState = "scanning"
    /\ queryOff
    /\ appOff
    /\ heapOff

\* one call of the forEach callback, lines 117-129
ScanVisit ==
    /\ scanState = "scanning"
    /\ scanPos < Len(filterInStock(scanInput))
    /\ bestOption' = visit(scanInput, bestOption, filterInStock(scanInput)[scanPos + 1])
    /\ scanPos' = scanPos + 1
    /\ UNCHANGED <<scanInput, scanState, queryVars, appVars, heapVars>>

\* lines 131-133, after the forEach
ScanFlag ==
    /\ scanState = "scanning"
    /\ scanPos = Len(filterInStock(scanInput))
    /\ scanInput' = flagBest(scanInput, bestOption)
    /\ scanState' = "done"
    /\ UNCHANGED <<scanPos, bestOption, queryVars, appVars, heapVars>>

NextScan ==
    \/ ScanVisit
    \/ ScanFlag

SpecScan == InitScan /\ [][NextScan]_vars

-----------------------------------------------------------------------------
(* Overlapping calls of findNearbyPharmacies, with the objects by address.  *)
(* The directory array and the arrays a call builds hold addresses; every   *)
(* object literal with a spread ({...pharmacy, ...}) is a new object at an  *)
(* unused address; map, slice and filter return new arrays.                 *)

\* calls of findNearbyPharmacies made in one run
MaxCalls == 2

\* the catalogue prefixes, locations and names of the overlapping calls
OverlapSizes == {1, 2}
OverlapLocations ==
    { [lat |-> 129192, lon |-> 774858], [lat |-> 129250, lon |-> 775450] }
OverlapNames == {"atorvastatin"}

\* the draws of the overlapping calls: every stock outcome, at the lowest
\* price; the jitter is not read for a name of the price table
OverlapDraws == [jitter : {0}, variation : {-50}, roll : StockRolls]

\* the objects an array of addresses points at
Deref(h, refs) == [i \in 1..Len(refs) |-> h[refs[i]]]

\* the addresses an array holds
Addresses(refs) == { refs[i] : i \in 1..Len(refs) }

\* the highest address in use
LastAddress(h) ==
    IF DOMAIN h = {} THEN 0
    ELSE CHOOSE a \in DOMAIN h : \A b \in DOMAIN h : b <= a

\* new objects at unused addresses: the heap with them, and the new array
Allocate(h, objs) ==
    LET base == LastAddress(h)
    IN  [heap |-> [a \in DOMAIN h \cup ((base + 1)..(base + Len(objs))) |->
                      IF a \in DOMAIN h THEN h[a] ELSE objs[a - base]],
         refs |-> [i \in 1..Len(objs) |-> base + i]]

\* mutant: the distance assigned to the directory's own objects, which the
\* new array then holds
mapDistanceInPlace(h, dir, loc) ==
    [heap |-> [a \in DOMAIN h |->
                  IF a \in Addresses(dir)
                  THEN [id |-> h[a].id, lat |-> h[a].lat, lon |-> h[a].lon,
                        distance |-> haversineDistance(loc, h[a])]
                  ELSE h[a]],
     refs |-> dir]

\* VERIFIED_PHARMACIES_IN_BANGALORE.map(pharmacy => ({...pharmacy, distance}))
mapDistance(h, dir, loc) ==
    Allocate(h, pharmaciesWithDistance(Deref(h, dir), loc))

\* .sort((a, b) => a.distance - b.distance).slice(0, 10) of the array map
\* returned: its addresses, closest first
sortedRefs(h, refs) ==
    LET tagged == [i \in 1..Len(refs) |->
                      [ref |-> refs[i], distance |-> h[refs[i]].distance]]
        closest == Slice(ArraySort(tagged, "closest"), ClosestCount)
    IN  [i \in 1..Len(closest) |-> closest[i].ref]

\* closestPharmacies.map(pharmacy => ({...pharmacy, distance, price, ...}))
mapDetails(h, refs, name, tape) ==
    Allocate(h, [i \in 1..Len(refs) |-> withDetails(h[refs[i]], name, tape[i])])

\* the forEach, then bestOption.isBestOption = true on the object bestOption
\* refers to
setBest(h, refs) ==
    LET details == Deref(h, refs)
        best == scanFrom(details, filterInStock(details), 0, 0)
    IN  IF best = 0 THEN h
        ELSE [h EXCEPT ![refs[best]].isBestOption = TRUE]

\* the timer callback, lines 83-135: the heap and the directory array it
\* leaves, and the array it resolves the promise with
timerCallback(h, dir, loc, name, tape) ==
    LET withDistance == mapDistance(h, dir, loc)
        closest == sortedRefs(withDistance.heap, withDistance.refs)
        detailed == mapDetails(withDistance.heap, closest, name, tape)
    IN  [heap |-> setBest(detailed.heap, detailed.refs),
         dir |-> dir,
         refs |-> detailed.refs]

\* the objects still referred to: the garbage of a call is dropped
Collect(h, live) == [a \in DOMAIN h \cap live |-> h[a]]

InitOverlap ==
    /\ \E n \in OverlapSizes :
          /\ heap = SubSeq(VERIFIED_PHARMACIES_IN_BANGALORE, 1, n)
          /\ catalogue = [i \in 1..n |-> i]
    /\ calls = <<>>
    /\ queryOff
    /\ scanOff
    /\ appOff

\* findNearbyPharmacies(loc, name): the promise is made and the timer armed
StartCall(loc, name) ==
    /\ Len(calls) < MaxCalls
    /\ calls' = Append(calls,
          [loc |-> loc, name |-> name, state |-> "pending", refs |-> <<>>,
           overlaps |-> \E e \in 1..Len(calls) : calls[e].state = "pending"])
    /\ UNCHANGED <<heap, catalogue, queryVars, scanVars, appVars>>

\* the timer of the oldest pending call fires (all timers run 1500 ms)
FireTimer ==
    /\ \E c \in 1..Len(calls) :
          /\ calls[c].state = "pending"
          /\ \A e \in 1..(c - 1) : calls[e].state = "resolved"
          /\ \E tape \in [1..Min(ClosestCount, Len(catalogue)) -> OverlapDraws] :
                LET done == timerCallback(heap, catalogue, calls[c].loc,
                                          calls[c].name, tape)
                IN  /\ heap' = Collect(done.heap, DOMAIN heap \cup Addresses(done.refs))
                    /\ catalogue' = done.dir
                    /\ calls' = [calls EXCEPT ![c].state = "resolved",
                                              ![c].refs = done.refs]
    /\ UNCHANGED <<queryVars, scanVars, appVars>>

NextOverlap ==
    \/ \E loc \in OverlapLocations, name \in OverlapNames : StartCall(loc, name)
    \/ FireTimer

SpecOverlap == InitOverlap /\ [][NextOverlap]_vars

-----------------------------------------------------------------------------
(* App.tsx: sortedPharmacies, the list the results page is given *)

SortKeys == {"price", "distance", "availability"}

\* useMemo(() => [...pharmacies].sort(...), [pharmacies, sortBy])
sortedPharmacies == ArraySort(pharmacies, sortBy)

\* onSortChange={setSortBy}: the sort buttons of the results page, which it
\* renders when !isLoading && pharmacies.length > 0
OnSortChange(key) ==
    /\ page = "results"
    /\ ~isLoading
    /\ Len(pharmacies) > 0
    /\ sortBy' = key
    /\ lastEvent' = "sortChange"
    /\ UNCHANGED <<page, pharmacies, isLoading, statusText, medicineChoices,
                   locationError, geoSupported, recPending, geoPending,
                   pharmPending, nextFlow, ghostVars, queryVars, scanVars, heapVars>>

IsAscending(list) ==
    \A i \in 1..(Len(list) - 1) : list[i].distance <= list[i + 1].distance

\* the App showing a response: a list as findNearbyPharmacies hands it over,
\* ascending in distance, the best option flagged by the scan
InitSort ==
    /\ \E n \in 0..MaxSortLen : \E cs \in [1..n -> ScanCandidates] :
          LET l == ResultList(cs)
          IN  /\ IsAscending(l)
              /\ pharmacies = flagBest(l, scanFrom(l, filterInStock(l), 0, 0))
    /\ page = "results"
    /\ isLoading = FALSE
    /\ sortBy = "distance"
    /\ statusText = NoStatus
    /\ medicineChoices = <<>>
    /\ locationError = ""
    /\ geoSupported = TRUE
    /\ recPending = {}
    /\ geoPending = {}
    /\ pharmPending = {}
    /\ nextFlow = 0
    /\ lastEvent = "none"
    /\ ghostOff
    /\ queryOff
    /\ scanOff
    /\ heapOff

NextSort == \E key \in SortKeys : OnSortChange(key)

SpecSort == InitSort /\ [][NextSort]_vars

-----------------------------------------------------------------------------
(* App.tsx: the search flow.  A string the flow splits at commas is the      *)
(* sequence of its parts.                                                    *)

\* what the user submits from the home page: nothing, blanks, and a word with
\* blanks around it
Queries == { <<"">>, <<"  ">>, <<" xy ">> }

\* String.prototype.trim on the parts of the model
Trim(part) ==
    CASE part = "  " -> ""
      [] part = " " -> ""
      [] part = " xy " -> "xy"
      [] part = " Ibuprofen" -> "Ibuprofen"
      [] OTHER -> part

\* query.trim() of a query, which has no comma
TrimQuery(query) == Trim(query[1])

\* what getMedicineRecommendations resolves with: the query itself (its
\* fallback, and an answer of one name), several names, or nothing usable
Recommendations(query) ==
    { query, <<"Paracetamol", " Ibuprofen">>, <<"", " ">> }

\* recommendations.split(',').map(m => m.trim()).filter(Boolean)
choicesOf(recommendations) ==
    SelectSeq([i \in 1..Len(recommendations) |-> Trim(recommendations[i])],
              LAMBDA m : m # "")

\* positions the geolocation provider delivers
GeoPositions == { [lat |-> 129192, lon |-> 774858] }

\* GeolocationPositionError.code
GeoErrorCodes == {"PERMISSION_DENIED", "POSITION_UNAVAILABLE"}

\* the directories the App's queries read: the empty one and a one-record one
AppDirectories == { <<>>, SubSeq(VERIFIED_PHARMACIES_IN_BANGALORE, 1, 1) }

InitApp ==
    /\ directory \in AppDirectories
    /\ qState = "idle"
    /\ userLocation = NoLocation
    /\ medicineName = ""
    /\ resolved = <<>>
    /\ scanOff
    /\ page = "home"
    /\ pharmacies = <<>>
    /\ isLoading = FALSE
    /\ sortBy = "distance"
    /\ statusText = NoStatus
    /\ medicineChoices = <<>>
    /\ locationError = ""
    /\ geoSupported \in BOOLEAN
    /\ recPending = {}
    /\ geoPending = {}
    /\ pharmPending = {}
    /\ nextFlow = 0
    /\ lastEvent = "none"
    /\ ghostOff
    /\ heapOff

\* handleMedicineSelect(medicine), lines 30-70, for flow id: what it leaves
\* of the App state
MedicineSelect(id, medicine) ==
    /\ pharmacies' = <<>>
    /\ heldFor' = NoFlow
    /\ medicineChoices' = <<>>
    /\ lastSelected' = [id |-> id, medicine |-> medicine]
    /\ IF ~geoSupported
       THEN /\ isLoading' = FALSE
            /\ locationError' = "Geolocation is not supported by your browser."
            /\ statusText' = [text |-> "Geolocation is not supported by your browser.",
                              arg |-> ""]
            /\ geoPending' = geoPending
            /\ lastEvent' = "geoUnsupported"
       ELSE /\ isLoading' = TRUE
            /\ locationError' = ""
            /\ statusText' = [text |-> "Getting your location...", arg |-> ""]
            /\ geoPending' = geoPending \cup {[id |-> id, medicine |-> medicine]}
            /\ lastEvent' = "medicineSelect"
    /\ UNCHANGED <<pharmPending, sortBy, geoSupported, directory>>

\* mutant: handleSearch without its first line
HandleSearchUnchecked(query) ==
    /\ page = "home"
    /\ nextFlow < MaxFlows
    /\ isLoading' = TRUE
    /\ page' = "results"
    /\ pharmacies' = <<>>
    /\ medicineChoices' = <<>>
    /\ locationError' = ""
    /\ statusText' = [text |-> "Consulting AI for medicine recommendations...",
                      arg |-> ""]
    /\ recPending' = recPending \cup {[id |-> nextFlow + 1, query |-> query]}
    /\ nextFlow' = nextFlow + 1
    /\ lastEvent' = "search"
    /\ heldFor' = NoFlow
    /\ lastRec' = <<>>
    /\ UNCHANGED <<sortBy, geoSupported, geoPending, pharmPending, lastSelected,
                   queryVars, scanVars, heapVars>>

\* handleSearch(query), lines 72-83, up to the await; the home page calls it
HandleSearch(query) ==
    /\ page = "home"
    /\ nextFlow < MaxFlows
    /\ IF TrimQuery(query) = ""
       THEN /\ lastEvent' = "searchBlank"
            /\ UNCHANGED <<uiVars, geoSupported, recPending, geoPending,
                           pharmPending, nextFlow, heldFor>>
       ELSE /\ isLoading' = TRUE
            /\ page' = "results"
            /\ pharmacies' = <<>>
            /\ medicineChoices' = <<>>
            /\ locationError' = ""
            /\ statusText' = [text |-> "Consulting AI for medicine recommendations...",
                              arg |-> ""]
            /\ recPending' = recPending \cup {[id |-> nextFlow + 1, query |-> query]}
            /\ nextFlow' = nextFlow + 1
            /\ lastEvent' = "search"
            /\ heldFor' = NoFlow
            /\ UNCHANGED <<sortBy, geoSupported, geoPending, pharmPending>>
    /\ lastRec' = <<>>
    /\ UNCHANGED <<lastSelected, queryVars, scanVars, heapVars>>

\* mutant: with several names recommended the first one is searched for
RecommendationsReturnFirst(r, recommendations) ==
    /\ r \in recPending
    /\ recPending' = recPending \ {r}
    /\ lastRec' = recommendations
    /\ LET choices == choicesOf(recommendations)
       IN  IF Len(choices) = 0
           THEN MedicineSelect(r.id, r.query[1])
           ELSE MedicineSelect(r.id, choices[1])
    /\ UNCHANGED <<page, nextFlow, qState, userLocation, medicineName, resolved,
                   scanVars, heapVars>>

\* handleSearch after the await, lines 84-94
RecommendationsReturn(r, recommendations) ==
    /\ r \in recPending
    /\ recPending' = recPending \ {r}
    /\ lastRec' = recommendations
    /\ LET choices == choicesOf(recommendations)
       IN  IF Len(choices) = 0
           THEN MedicineSelect(r.id, r.query[1])
           ELSE IF Len(choices) = 1
           THEN MedicineSelect(r.id, choices[1])
           ELSE /\ medicineChoices' = choices
                /\ isLoading' = FALSE
                /\ statusText' = [text |-> "AI recommended the following. Please choose one.",
                                  arg |-> r.query[1]]
                /\ lastEvent' = "choicesOffered"
                /\ UNCHANGED <<pharmacies, locationError, geoPending, pharmPending,
                               sortBy, geoSupported, directory, heldFor, lastSelected>>
    /\ UNCHANGED <<page, nextFlow, qState, userLocation, medicineName, resolved,
                   scanVars, heapVars>>

\* onMedicineSelect(medicine): a button of the selection the results page
\* renders (renderMainContent)
ChooseMedicine(medicine) ==
    /\ page = "results"
    /\ ~isLoading
    /\ Len(medicineChoices) > 0
    /\ Len(pharmacies) = 0
    /\ \E i \in 1..Len(medicineChoices) : medicineChoices[i] = medicine
    /\ nextFlow < MaxFlows
    /\ nextFlow' = nextFlow + 1
    /\ MedicineSelect(nextFlow + 1, medicine)
    /\ lastRec' = <<>>
    /\ UNCHANGED <<page, recPending, qState, userLocation, medicineName, resolved,
                   scanVars, heapVars>>

\* the success callback of getCurrentPosition, lines 45-49, up to the await
GeoSuccess(g, position) ==
    /\ g \in geoPending
    /\ geoPending' = geoPending \ {g}
    /\ statusText' = [text |-> "Finding pharmacies near you...", arg |-> g.medicine]
    /\ pharmPending' = pharmPending \cup
          {[id |-> g.id, medicine |-> g.medicine, loc |-> position,
            after |-> {c.id : c \in pharmPending}]}
    /\ lastEvent' = "geoSuccess"
    /\ lastRec' = <<>>
    /\ UNCHANGED <<page, pharmacies, isLoading, sortBy, medicineChoices, locationError,
                   geoSupported, recPending, nextFlow, heldFor, lastSelected,
                   queryVars, scanVars, heapVars>>

\* mutant: the error callback without setIsLoading(false)
GeoErrorStillLoading(g, code) ==
    /\ g \in geoPending
    /\ geoPending' = geoPending \ {g}
    /\ LET errorMsg ==
             IF code = "PERMISSION_DENIED"
             THEN "Location access denied. Please allow location access to find nearby pharmacies."
             ELSE "Could not get your location. Please enable location services in your browser settings."
       IN  /\ locationError' = errorMsg
           /\ statusText' = [text |-> errorMsg, arg |-> ""]
    /\ isLoading' = isLoading
    /\ lastEvent' = "geoError"
    /\ lastRec' = <<>>
    /\ UNCHANGED <<page, pharmacies, sortBy, medicineChoices, geoSupported, recPending,
                   pharmPending, nextFlow, heldFor, lastSelected,
                   queryVars, scanVars, heapVars>>

\* the error callback of getCurrentPosition, lines 59-68
GeoError(g, code) ==
    /\ g \in geoPending
    /\ geoPending' = geoPending \ {g}
    /\ LET errorMsg ==
             IF code = "PERMISSION_DENIED"
             THEN "Location access denied. Please allow location access to find nearby pharmacies."
             ELSE "Could not get your location. Please enable location services in your browser settings."
       IN  /\ locationError' = errorMsg
           /\ statusText' = [text |-> errorMsg, arg |-> ""]
    /\ isLoading' = FALSE
    /\ lastEvent' = "geoError"
    /\ lastRec' = <<>>
    /\ UNCHANGED <<page, pharmacies, sortBy, medicineChoices, geoSupported, recPending,
                   pharmPending, nextFlow, heldFor, lastSelected,
                   queryVars, scanVars, heapVars>>

\* the timer of call c fires and its promise resolves: the timers of
\* pharmacyService.ts line 136 all run 1500 ms, so the calls resolve in the
\* order they were made
TimerFires(c) ==
    /\ c \in pharmPending
    /\ \A earlier \in pharmPending : earlier.id \notin c.after
    /\ pharmPending' = pharmPending \ {c}

\* the success callback after the await, lines 50-57, with the array the
\* promise of findNearbyPharmacies resolved with
PharmaciesFound(c) ==
    /\ TimerFires(c)
    /\ \E tape \in Tapes(Min(ClosestCount, Len(directory))) :
          pharmacies' = findNearbyPharmacies(directory, c.loc, c.medicine, tape)
    /\ isLoading' = FALSE
    /\ statusText' = NoStatus
    /\ lastEvent' = "pharmaciesFound"
    /\ heldFor' = [id |-> c.id, medicine |-> c.medicine]
    /\ lastRec' = <<>>
    /\ UNCHANGED <<page, sortBy, medicineChoices, locationError, geoSupported,
                   recPending, geoPending, nextFlow, lastSelected,
                   queryVars, scanVars, heapVars>>

\* <Header onHomeClick={() => setPage('home')} />
HomeClick ==
    /\ page = "results"
    /\ page' = "home"
    /\ lastEvent' = "homeClick"
    /\ lastRec' = <<>>
    /\ UNCHANGED <<pharmacies, isLoading, sortBy, statusText, medicineChoices,
                   locationError, geoSupported, recPending, geoPending, pharmPending,
                   nextFlow, heldFor, lastSelected, queryVars, scanVars, heapVars>>

NextApp ==
    \/ \E query \in Queries : HandleSearch(query)
    \/ \E r \in recPending : \E rec \in Recommendations(r.query) :
          RecommendationsReturn(r, rec)
    \/ \E medicine \in {"Paracetamol", "Ibuprofen"} : ChooseMedicine(medicine)
    \/ \E g \in geoPending : \E position \in GeoPositions : GeoSuccess(g, position)
    \/ \E g \in geoPending : \E code \in GeoErrorCodes : GeoError(g, code)
    \/ \E c \in pharmPending : PharmaciesFound(c)
    \/ HomeClick

SpecApp == InitApp /\ [][NextApp]_vars

\* the recommendation service answers
RecommendationArrives ==
    \E r \in recPending : \E rec \in Recommendations(r.query) :
        RecommendationsReturn(r, rec)

\* the geolocation provider invokes one of the two callbacks
GeoCallback ==
    \/ \E g \in geoPending : \E position \in GeoPositions : GeoSuccess(g, position)
    \/ \E g \in geoPending : \E code \in GeoErrorCodes : GeoError(g, code)

\* the App with its collaborators answering: the recommendation service
\* returns, the geolocation provider calls back, and the event loop runs the
\* timer of the oldest pharmacy query (a step that takes it off pharmPending)
SpecAppFair ==
    /\ InitApp
    /\ [][NextApp]_vars
    /\ WF_vars(RecommendationArrives)
    /\ WF_vars(GeoCallback)
    /\ WF_pharmPending(\E c \in pharmPending : TimerFires(c))

-----------------------------------------------------------------------------
(* Claims *)

Flagged(list) == { i \in 1..Len(list) : list[i].isBestOption }

Available(list) == { i \in 1..Len(list) : list[i].stock # OutOfStock }

\* C1: the list findNearbyPharmacies resolves with holds at most one result
\* with isBestOption = TRUE, whatever the location, the name and the draws.
C1_AtMostOneBest ==
    qState = "resolved" => Cardinality(Flagged(resolved)) <= 1

C1_Witness ==
    /\ qState = "resolved"
    /\ Cardinality(Available(resolved)) >= 2
    /\ Cardinality(Flagged(resolved)) = 1

\* C2: in the resolved list no result is flagged exactly when every returned
\* candidate is OutOfStock (the empty list included), and when some candidate
\* is InStock or LowStock exactly one result is flagged.
C2_NoneIffAllOutOfStock ==
    qState = "resolved" =>
        /\ (Flagged(resolved) = {}) <=> (Available(resolved) = {})
        /\ (Available(resolved) # {}) => Cardinality(Flagged(resolved)) = 1

C2_Witness ==
    /\ qState = "resolved"
    /\ Len(resolved) = 3
    /\ Available(resolved) = {}
    /\ Flagged(resolved) = {}

\* C3: the result the scan flags is never OutOfStock, for any input sequence
\* in any order; nor is the running best during the scan.
C3_BestNeverOutOfStock ==
    /\ bestOption # 0 => scanInput[bestOption].stock # OutOfStock
    /\ \A i \in Flagged(scanInput) : scanInput[i].stock # OutOfStock

C3_Witness ==
    /\ scanState = "done"
    /\ \E i \in Flagged(scanInput) :
          /\ i > 1
          /\ scanInput[1].stock = OutOfStock
          /\ \E j \in (i + 1)..Len(scanInput) : scanInput[j].stock = OutOfStock

\* candidate i is InStock and strictly closer and strictly cheaper than every
\* other candidate that is not OutOfStock
Dominates(list, i) ==
    /\ list[i].stock = InStock
    /\ \A j \in Available(list) \ {i} :
          /\ list[i].distance < list[j].distance
          /\ list[i].price < list[j].price

\* C4: after the scan of any sequence, a candidate that is InStock and
\* strictly closer and strictly cheaper than every other candidate that is not
\* OutOfStock is the flagged one, wherever it stands in the sequence.
C4_DominantIsBest ==
    scanState = "done" =>
        \A i \in 1..Len(scanInput) :
            Dominates(scanInput, i) => Flagged(scanInput) = {i}

C4_Witness ==
    /\ scanState = "done"
    /\ Len(scanInput) = 3
    /\ Available(scanInput) = {1, 2, 3}
    /\ Dominates(scanInput, 2)
    /\ Flagged(scanInput) = {2}

\* the object the next forEach callback receives
NextScanned == filterInStock(scanInput)[scanPos + 1]

\* C5 (step): when the running best is LowStock and the candidate scanned next
\* is InStock, that candidate becomes the running best, whatever its distance
\* and price.
C5_InStockReplacesLowStockStep ==
    [][ ( /\ scanState = "scanning"
          /\ scanPos < Len(filterInStock(scanInput))
          /\ bestOption # 0
          /\ scanInput[bestOption].stock = LowStock
          /\ scanInput[NextScanned].stock = InStock
          /\ scanPos' = scanPos + 1 )
        => bestOption' = NextScanned ]_vars

\* C5 (result): of two candidates [A LowStock, B InStock], B is the flagged one.
C5_InStockReplacesLowStockPair ==
    ( /\ scanState = "done"
      /\ Len(scanInput) = 2
      /\ scanInput[1].stock = LowStock
      /\ scanInput[2].stock = InStock )
    => Flagged(scanInput) = {2}

\* C5: during the scan an InStock candidate replaces a LowStock running best
\* regardless of distance and price; for [A LowStock, B InStock] B is flagged
\* even when B is farther.
C5_InStockReplacesLowStock ==
    /\ C5_InStockReplacesLowStockStep
    /\ []C5_InStockReplacesLowStockPair

\* A 1.0 km / 100 LowStock, B 1.5 km / 90 InStock: B is flagged
C5_Witness ==
    /\ scanState = "done"
    /\ Len(scanInput) = 2
    /\ scanInput[1].stock = LowStock /\ scanInput[1].distance = 10
    /\ scanInput[1].price = 10000
    /\ scanInput[2].stock = InStock /\ scanInput[2].distance = 15
    /\ scanInput[2].price = 9000
    /\ Flagged(scanInput) = {2}

Ids(list) == { list[i].id : i \in 1..Len(list) }

\* C6: the resolved list has min(10, |directory|) results, each for a distinct
\* directory identifier; for the empty directory it is the empty list (the
\* call resolves: the state is reached).
C6_ResultSize ==
    qState = "resolved" =>
          /\ Len(resolved) = Min(10, Len(directory))
          /\ Cardinality(Ids(resolved)) = Len(resolved)
          /\ Ids(resolved) \subseteq Ids(directory)
          /\ directory = <<>> => resolved = <<>>

C6_Witness ==
    /\ qState = "resolved"
    /\ Len(directory) = 11
    /\ Len(resolved) = 10

\* the directory records the resolved list leaves out
LeftOut == { i \in 1..Len(directory) : directory[i].id \notin Ids(resolved) }

\* C7: the resolved list is in non-decreasing order of (rounded) distance and
\* holds the nearest pharmacies: every directory pharmacy left out is at least
\* as far from the user location as every pharmacy in the list.
C7_NearestInOrder ==
    qState = "resolved" =>
        /\ \A i \in 1..(Len(resolved) - 1) :
              resolved[i].distance <= resolved[i + 1].distance
        /\ \A o \in LeftOut : \A i \in 1..Len(resolved) :
              haversineDistance(userLocation, directory[o])
                  >= haversineDistance(userLocation, resolved[i])

\* the kept records are not a prefix of the catalogue, and are not in its order
C7_Witness ==
    /\ qState = "resolved"
    /\ LeftOut # {}
    /\ \E o \in LeftOut : o < Len(directory)
    /\ resolved[1].id # directory[1].id
    /\ \E i \in 1..(Len(resolved) - 1) : resolved[i].distance < resolved[i + 1].distance

\* the sort key's value of a result
KeyOf(key, p) ==
    CASE key = "price" -> p.price
      [] key = "distance" -> p.distance
      [] key = "availability" ->
           (CASE p.stock = InStock -> 1 [] p.stock = LowStock -> 2 [] p.stock = OutOfStock -> 3)

\* C8: for every sort key and every list with one flagged result, the
\* reordered list has the flagged result at index 0 (the first element).
C8_BestPinnedFirst ==
    Cardinality(Flagged(pharmacies)) = 1 => sortedPharmacies[1].isBestOption

\* the flagged result is first although it is not the cheapest
C8_Witness ==
    /\ sortBy = "price"
    /\ Len(pharmacies) = 3
    /\ \E i \in Flagged(pharmacies) :
          /\ \E j \in 1..Len(pharmacies) : pharmacies[j].price < pharmacies[i].price
          /\ sortedPharmacies[1] = pharmacies[i]

\* C9: behind the pinned best option the reordered list is non-decreasing
\* under the sort key (distance, price, or InStock before LowStock before
\* OutOfStock), and it is a permutation of the list held.
C9_SortedBehindPin ==
    LET sorted == sortedPharmacies
        pinned == Cardinality(Flagged(pharmacies))
    IN  /\ \A i \in (pinned + 1)..(Len(sorted) - 1) :
              KeyOf(sortBy, sorted[i]) <= KeyOf(sortBy, sorted[i + 1])
        /\ Len(sorted) = Len(pharmacies)
        /\ \A p \in {pharmacies[i] : i \in 1..Len(pharmacies)} :
              Cardinality({i \in 1..Len(sorted) : sorted[i] = p})
                  = Cardinality({i \in 1..Len(pharmacies) : pharmacies[i] = p})

\* 'availability' moves an InStock result in front of an OutOfStock and a
\* LowStock one that precede it in the list held
C9_Witness ==
    /\ sortBy = "availability"
    /\ Len(pharmacies) = 3
    /\ sortedPharmacies # pharmacies
    /\ \E i \in 2..Len(pharmacies) :
          KeyOf(sortBy, sortedPharmacies[i]) > KeyOf(sortBy, sortedPharmacies[i - 1])

\* C10 (calls): a call of findNearbyPharmacies is started only by the
\* geolocation success callback, for the medicine that callback was waiting
\* with, at the delivered position, and the medicine name is not blank.
C10_CallOnlyWithPosition ==
    [][ \A c \in pharmPending' \ pharmPending :
            /\ lastEvent' = "geoSuccess"
            /\ \E g \in geoPending \ geoPending' :
                  g.id = c.id /\ g.medicine = c.medicine
            /\ c.loc \in GeoPositions
            /\ Trim(c.medicine) # "" ]_vars

\* C10 (no work): a blank query leaves the App as it was; on unsupported
\* geolocation and on a geolocation error no call is started and the step does
\* not populate the list.
C10_NoWorkOnFailure ==
    [][ /\ lastEvent' = "searchBlank" =>
              UNCHANGED <<uiVars, recPending, geoPending, pharmPending, nextFlow>>
        /\ lastEvent' = "geoUnsupported" =>
              pharmPending' = pharmPending /\ pharmacies' = <<>>
        /\ lastEvent' = "geoError" =>
              pharmPending' = pharmPending /\ pharmacies' = pharmacies ]_vars

\* C10 (outcome): after the geolocation failure isLoading is false and the
\* error message is set and shown; in a run of a single search the list is
\* empty.
C10_FailureShown ==
    lastEvent \in {"geoUnsupported", "geoError"} =>
        /\ ~isLoading
        /\ locationError # ""
        /\ statusText.text = locationError
        /\ nextFlow = 1 => pharmacies = <<>> /\ pharmPending = {}

\* C10: findNearbyPharmacies is called only after the geolocation provider
\* delivered a position and only with a non-blank medicine name; on a blank
\* query, unsupported geolocation or a geolocation error no pharmacy query is
\* started and the list is not populated, and in the geolocation cases
\* isLoading ends false with the error message set.
C10_NoQueryWithoutInput ==
    /\ C10_CallOnlyWithPosition
    /\ C10_NoWorkOnFailure
    /\ []C10_FailureShown

\* the first search ended in a denied geolocation request
C10_Witness ==
    /\ lastEvent = "geoError"
    /\ nextFlow = 1
    /\ locationError = "Location access denied. Please allow location access to find nearby pharmacies."
    /\ ~isLoading
    /\ pharmacies = <<>>
    /\ pharmPending = {}

-----------------------------------------------------------------------------
(* Distances and prices of a response *)

\* the query location is the recorded location of the pharmacy
Coincides(loc, p) == loc.lat = p.lat /\ loc.lon = p.lon

\* C11 as stated: every result's distance is non-negative, and it is zero only
\* when the query location is exactly the pharmacy's recorded location.
C11_ZeroOnlyAtPharmacy ==
    qState = "resolved" =>
        \A i \in 1..Len(resolved) :
            /\ resolved[i].distance >= 0
            /\ resolved[i].distance = 0 => Coincides(userLocation, resolved[i])

\* C11 amended: every result's distance is non-negative; it is zero exactly
\* when the pharmacy is less than 50 m (0.05 km) from the query location, which
\* is so when the two coincide; only the distance before toFixed(1) is zero
\* just when they coincide.
C11_ZeroWithinRounding ==
    qState = "resolved" =>
        \A i \in 1..Len(resolved) :
            LET raw == haversineDistance(userLocation, resolved[i])
            IN  /\ resolved[i].distance >= 0
                /\ resolved[i].distance = 0 <=> raw < 50
                /\ Coincides(userLocation, resolved[i]) => resolved[i].distance = 0
                /\ raw = 0 <=> Coincides(userLocation, resolved[i])

\* a result at distance 0.0 of a pharmacy the user is not standing at, next to
\* a result farther away
C11_Witness ==
    /\ qState = "resolved"
    /\ \E i \in 1..Len(resolved) :
          /\ resolved[i].distance = 0
          /\ ~Coincides(userLocation, resolved[i])
    /\ \E i \in 1..Len(resolved) : resolved[i].distance > 0

\* C13: for every medicine name that is not in the price table, the empty
\* name included, and every outcome of the random draws, the call resolves and
\* every result's price, rounded to two decimals, is strictly positive.
C13_UnknownNamePricedPositive ==
    (qState = "resolved" /\ ToLowerCase(medicineName) \notin DOMAIN MEDICINE_PRICES) =>
        \A i \in 1..Len(resolved) : resolved[i].price > 0

-----------------------------------------------------------------------------
(* The tiers of the best option *)

\* C15: whenever at least one candidate of the scanned list is In Stock, the
\* flagged result is In Stock; a Low Stock result is flagged only when no
\* candidate is In Stock.
C15_InStockPreferred ==
    qState = "resolved" =>
        ((\E i \in 1..Len(resolved) : resolved[i].stock = InStock) =>
            \A i \in Flagged(resolved) : resolved[i].stock = InStock)

\* the results as pharmaciesWithDetails.map left them, before the flag is set
Unflagged(list) == [i \in 1..Len(list) |-> [list[i] EXCEPT !.isBestOption = FALSE]]

\* the forEach callback without its second rule (closer and not 5 dearer)
visitFirstThird(details, best, i) ==
    LET p == details[i]
    IN  IF best = 0 THEN i
        ELSE LET b == details[best]
             IN  IF p.stock = InStock /\ b.stock = LowStock THEN i
                 ELSE IF p.price < b.price /\ p.distance < b.distance + 10 THEN i
                 ELSE best

RECURSIVE scanFirstThird(_, _, _, _)
scanFirstThird(details, kept, k, best) ==
    IF k >= Len(kept) THEN best
    ELSE scanFirstThird(details, kept, k + 1, visitFirstThird(details, best, kept[k + 1]))

\* the running best after the first k kept candidates
BestAfter(details, k) ==
    scanFrom(details, SubSeq(filterInStock(details), 1, k), 0, 0)

\* C19: inside findNearbyPharmacies the scan receives the candidates in
\* non-decreasing distance order, so no candidate is closer than the running
\* best and the second rule never replaces it; the flagged result is the one
\* the first kept candidate, the availability rule and the cheaper rule alone
\* determine.
C19_CloserRuleNeverFires ==
    qState = "resolved" =>
        LET details == Unflagged(resolved)
            kept == filterInStock(details)
        IN  /\ \A i \in 2..Len(resolved) :
                  resolved[i - 1].distance <= resolved[i].distance
            /\ \A k \in 1..(Len(kept) - 1) :
                  details[kept[k + 1]].distance >= details[BestAfter(details, k)].distance
            /\ Flagged(resolved) = {scanFirstThird(details, kept, 0, 0)} \ {0}

\* a response over several distances whose flag went past the first kept
\* candidate
C19_Witness ==
    /\ qState = "resolved"
    /\ Len(resolved) >= 3
    /\ resolved[1].distance < resolved[Len(resolved)].distance
    /\ resolved[1].stock # OutOfStock
    /\ \E i \in 2..Len(resolved) : resolved[i].isBestOption

-----------------------------------------------------------------------------
(* The App: which medicine a pharmacy query is made for *)

\* the getCurrentPosition requests a step makes
NewGeo == geoPending' \ geoPending

\* C16 (after the recommendations): with several names the step offers them,
\* selects nothing and starts no request; with one name it selects that name,
\* with none the text the user typed.
C16_AfterRecommendations ==
    [][ lastRec' # <<>> =>
          \E r \in recPending \ recPending' :
             LET choices == choicesOf(lastRec')
                 name == IF Len(choices) = 0 THEN r.query[1] ELSE choices[1]
             IN  IF Len(choices) > 1
                 THEN /\ medicineChoices' = choices
                      /\ NewGeo = {}
                      /\ pharmPending' = pharmPending
                      /\ lastSelected' = lastSelected
                      /\ ~isLoading'
                 ELSE /\ lastSelected' = [id |-> r.id, medicine |-> name]
                      /\ medicineChoices' = <<>>
                      /\ NewGeo = IF geoSupported
                                  THEN {[id |-> r.id, medicine |-> name]}
                                  ELSE {} ]_vars

\* C16 (selection): any other step that requests the position is the user's
\* choice among the names on offer, and it requests it for the chosen name.
C16_AfterChoice ==
    [][ (lastRec' = <<>> /\ NewGeo # {}) =>
          /\ Len(medicineChoices) > 1
          /\ ~isLoading
          /\ \E i \in 1..Len(medicineChoices) :
                /\ NewGeo = {[id |-> nextFlow', medicine |-> medicineChoices[i]]}
                /\ lastSelected' = [id |-> nextFlow', medicine |-> medicineChoices[i]]
          /\ nextFlow' = nextFlow + 1 ]_vars

\* C16 (the call): a call is made with the one name its position request
\* carried, one call per request.
C16_CallForThatName ==
    [][ \A c \in pharmPending' \ pharmPending :
          /\ pharmPending' \ pharmPending = {c}
          /\ \E g \in geoPending \ geoPending' :
                g.id = c.id /\ g.medicine = c.medicine ]_vars

\* C16: each pharmacy query is made with exactly one medicine name: with more
\* than one recommended name no query is made until the user selects one of
\* the names offered, and the query uses that name; with exactly one name the
\* query uses it without a choice step; with none it uses the user's original
\* query text.
C16_OneNamePerQuery ==
    /\ C16_AfterRecommendations
    /\ C16_AfterChoice
    /\ C16_CallForThatName

\* a query in flight for the second of the names offered after the first search
C16_Witness ==
    /\ \E c \in pharmPending : c.id = 2 /\ c.medicine = "Ibuprofen"
    /\ lastSelected = [id |-> 2, medicine |-> "Ibuprofen"]
    /\ recPending = {}

-----------------------------------------------------------------------------
(* The App: overlapping searches and selections *)

\* the flows with a recommendation, position or pharmacy request outstanding
InFlight ==
    {r.id : r \in recPending} \cup {g.id : g \in geoPending}
        \cup {c.id : c \in pharmPending}

\* C18 (the list): once no request is outstanding, a list held is the
\* response to the medicine selected last.
C18_ListAnswersLatest ==
    (InFlight = {} /\ heldFor # NoFlow) => heldFor.medicine = lastSelected.medicine

\* C18 (the spinner): isLoading is true as long as the request started last
\* is outstanding.
C18_LoadingWhileLatestInFlight ==
    nextFlow \in InFlight => isLoading

\* C18: with overlapping searches or selections, once every request in flight
\* has completed the pharmacy list held is the response to the most recently
\* selected medicine, and isLoading is not set to false while the most recent
\* request is still in flight.
C18_LatestWins ==
    /\ C18_ListAnswersLatest
    /\ C18_LoadingWhileLatestInFlight

-----------------------------------------------------------------------------
(* The App: every request comes to an end *)

\* the pharmacy query of flow id is awaited
QueryPending(id) == \E c \in pharmPending : c.id = id

\* C17 (resolution): a pharmacy query ends only by resolving, once, and what
\* it hands over is the whole list, one result per candidate, with the flag
\* already on it: on exactly one result, unless every result is out of stock.
C17_ResolvesOnceComplete ==
    [][ \A c \in pharmPending \ pharmPending' :
          /\ pharmPending' = pharmPending \ {c}
          /\ \A other \in pharmPending' : other.id # c.id
          /\ lastEvent' = "pharmaciesFound"
          /\ heldFor' = [id |-> c.id, medicine |-> c.medicine]
          /\ Len(pharmacies') = Min(ClosestCount, Len(directory))
          /\ Cardinality(Flagged(pharmacies')) =
                IF Available(pharmacies') = {} THEN 0 ELSE 1
          /\ ~isLoading' ]_vars

\* C17 (queries end): every pharmacy query awaited is eventually resolved.
C17_QueryResolves ==
    \A id \in 1..MaxFlows : QueryPending(id) ~> ~QueryPending(id)

\* C17 (searches end): after every handleSearch with a non-blank query
\* isLoading eventually is false.
C17_SearchSettles ==
    (lastEvent = "search") ~> ~isLoading

\* C17: every call of findNearbyPharmacies eventually resolves, exactly once,
\* with the complete annotated list whose flag is already set; and, the
\* recommendation service returning and the geolocation provider eventually
\* invoking one of its callbacks, every handleSearch with a non-blank query
\* eventually reaches isLoading = false.
C17_EverythingSettles ==
    /\ C17_ResolvesOnceComplete
    /\ C17_QueryResolves
    /\ C17_SearchSettles

\* a search that went all the way: its pharmacy query resolved with a flagged
\* result and nothing is outstanding
C17_Witness ==
    /\ lastEvent = "pharmaciesFound"
    /\ heldFor.id = 1
    /\ Flagged(pharmacies) # {}
    /\ InFlight = {}
    /\ ~isLoading

-----------------------------------------------------------------------------
(* Overlapping calls: the directory and the responses *)

\* the responses handed out so far
Responses == { c \in 1..Len(calls) : calls[c].state = "resolved" }

\* C12 (directory): the directory array holds the catalogue's records, in the
\* catalogue's order, whatever calls were made.
C12_DirectoryKept ==
    Deref(heap, catalogue) =
        SubSeq(VERIFIED_PHARMACIES_IN_BANGALORE, 1, Len(catalogue))

\* C12 (own objects): the objects of a response are objects of no other
\* response and not of the directory, one object per result.
C12_ResponsesApart ==
    \A c \in Responses :
        /\ Addresses(calls[c].refs) \cap Addresses(catalogue) = {}
        /\ \A d \in Responses \ {c} :
              Addresses(calls[c].refs) \cap Addresses(calls[d].refs) = {}
        /\ Cardinality(Addresses(calls[c].refs)) = Len(calls[c].refs)

\* C12 (writes): no step changes a field of an object that existed before it,
\* a directory record or a result of an earlier response.
C12_NoWriteToOthers ==
    [][ \A a \in DOMAIN heap : a \in DOMAIN heap' /\ heap'[a] = heap[a] ]_vars

\* C12: for any number of overlapping calls of findNearbyPharmacies the
\* directory's records and their order are unchanged, and the result objects
\* of each call are its own: setting isBestOption, distance, price or stock in
\* one response changes no field of another response or of a directory record.
C12_CallsDoNotInterfere ==
    /\ []C12_DirectoryKept
    /\ []C12_ResponsesApart
    /\ C12_NoWriteToOthers

\* two overlapping calls resolved, their flags on different results
C12_Witness ==
    /\ Len(calls) = 2
    /\ Responses = {1, 2}
    /\ calls[2].overlaps
    /\ calls[1].loc # calls[2].loc
    /\ Len(calls[1].refs) = 2
    /\ heap[calls[1].refs[1]].isBestOption
    /\ heap[calls[2].refs[2]].isBestOption

=============================================================================
